---- MODULE Spec2Model ----
(***************************************************************************)
(* A model of pyramid_template: the markup parser that reduces an element  *)
(* event stream to a Template tree (src/src/lib.rs from_event_reader and   *)
(* src/src/template.rs from_string / parse_event), the template registry   *)
(* and its loaders (src/src/lib.rs TemplateSubSystem) and the inheritance  *)
(* aware instantiation Template::apply, which exists in two revisions:     *)
(* src/src/template.rs (asks has_property before set_property) and         *)
(* src/src/lib.rs (calls set_property unconditionally). The callbacks of   *)
(* the subsystem (on_document_loaded, on_entity_added) and the loop of     *)
(* load_templates_from_file, one turn per step, come last.                 *)
(***************************************************************************)
EXTENDS Integers, Sequences, FiniteSets, TLC

VARIABLES
    parser,          \* which revision of the parser runs: "lib" or "template"
    events,          \* the events the parser has pulled from the iterator so far
    template_stack,  \* the parser's stack of templates under construction
    result,          \* what the parser call has returned (or that it still runs)
    revision,        \* which revision of Template::apply runs: "template" or "lib"
    templates,       \* the registry: a function from type names to templates
    system,          \* the entity store: a sequence of entities, an id is an index
    call,            \* the last apply call: its template, target and the store before,
                     \* the store before the application before it, and how many
                     \* times the template has been applied to the target
    status,          \* "ready", "done" (apply returned) or "aborted" (it did not return)
    doc_events,      \* whether the tokenizer brackets a document in StartDocument/EndDocument
    load,            \* the last load_templates call: its directive, the registry before,
                     \* the templates its parser calls returned, in order, and the
                     \* error it returned
    load_result,     \* "idle", or how the last load_templates call ended: "Ok", "Err", "Panic"
    file             \* a load_templates_from_file call in progress: the events of
                     \* its file, the position of its iterator, the parser calls it
                     \* has made, and where the call stands

parseVars == <<parser, events, template_stack, result>>

applyVars == <<revision, templates, system, call, status>>

loadVars == <<doc_events, load, load_result, file>>

vars == <<parseVars, applyVars, loadVars>>

(***************************************************************************)
(* Bounds of the model.                                                    *)
(***************************************************************************)
MaxEvents == 6

MaxProps == 2

MaxChildren == 2

MaxDepth == 8

MaxEntries == 2

MaxLoads == 1

MaxApplications == 2

MaxStream == 5

(***************************************************************************)
(* Option<T>: None is the empty sequence, Some(x) the one-element one.     *)
(***************************************************************************)
None == <<>>

Some(x) == <<x>>

(***************************************************************************)
(* pyramid::propnode_parser::parse: an attribute string becomes a typed    *)
(* node or a parse error. Decimal strings are integers, "?" is a string    *)
(* the property-expression grammar rejects, any other string is taken as   *)
(* text.                                                                   *)
(***************************************************************************)
Integer(n) == [tag |-> "Integer", int |-> n, str |-> ""]

propnode_parse(s) ==
    CASE s = "5" -> [ok |-> TRUE, node |-> Integer(5)]
      [] s = "7" -> [ok |-> TRUE, node |-> Integer(7)]
      [] s = "?" -> [ok |-> FALSE, node |-> [tag |-> "Err", int |-> 0, str |-> s]]
      [] OTHER   -> [ok |-> TRUE, node |-> [tag |-> "String", int |-> 0, str |-> s]]

(***************************************************************************)
(* XmlEvent. Every event is a record of the same shape; name and           *)
(* attributes are empty where the variant has none.                        *)
(***************************************************************************)
Attr(n, v) == [name |-> n, value |-> v]

StartElement(n, as) == [kind |-> "StartElement", name |-> n, attributes |-> as]

EndElement(n) == [kind |-> "EndElement", name |-> n, attributes |-> <<>>]

ErrorEvent == [kind |-> "Error", name |-> "", attributes |-> <<>>]

OtherEvent == [kind |-> "Other", name |-> "", attributes |-> <<>>]

(***************************************************************************)
(* Template { type_name, inherits, properties, children }.                 *)
(***************************************************************************)
Template(type_name, inherits, properties, children) ==
    [type_name |-> type_name, inherits |-> inherits,
     properties |-> properties, children |-> children]

(***************************************************************************)
(* What one turn of the parser's loop yields: the stack it leaves and      *)
(* whether the loop goes on ("Continue"), returns a template ("Ok"),       *)
(* returns an error ("Err") or panics ("Panic").                           *)
(***************************************************************************)
Outcome(stack, kind, template, msg) ==
    [stack |-> stack, kind |-> kind, template |-> template, msg |-> msg]

(***************************************************************************)
(* attributes.iter().find(|x| x.name.local_name == "inherits"), mapped to  *)
(* the attribute's value.                                                  *)
(***************************************************************************)
RECURSIVE find_inherits(_, _)
find_inherits(attributes, i) ==
    IF i > Len(attributes) THEN None
    ELSE IF attributes[i].name = "inherits" THEN Some(attributes[i].value)
    ELSE find_inherits(attributes, i + 1)

(***************************************************************************)
(* for attribute in attributes { ... }: skips inherits, parses every other *)
(* value and pushes (name, node); a value that does not parse panics.      *)
(***************************************************************************)
\* (the loop without its "continue" for inherits)
RECURSIVE push_every_attribute(_, _, _)
push_every_attribute(attributes, i, properties) ==
    IF i > Len(attributes) THEN [panic |-> FALSE, properties |-> properties]
    ELSE LET parsed == propnode_parse(attributes[i].value)
         IN  IF parsed.ok
             THEN push_every_attribute(attributes, i + 1,
                      Append(properties, <<attributes[i].name, parsed.node>>))
             ELSE [panic |-> TRUE, properties |-> properties]

RECURSIVE push_properties(_, _, _)
push_properties(attributes, i, properties) ==
    IF i > Len(attributes) THEN [panic |-> FALSE, properties |-> properties]
    ELSE IF attributes[i].name = "inherits"
         THEN push_properties(attributes, i + 1, properties)
    ELSE LET parsed == propnode_parse(attributes[i].value)
         IN  IF parsed.ok
             THEN push_properties(attributes, i + 1,
                      Append(properties, <<attributes[i].name, parsed.node>>))
             ELSE [panic |-> TRUE, properties |-> properties]

(***************************************************************************)
(* The XmlEvent::StartElement arm, the same text in both revisions.        *)
(***************************************************************************)
start_element(stack, event) ==
    LET inherits == find_inherits(event.attributes, 1)
        built    == push_properties(event.attributes, 1, <<>>)
    IN  IF built.panic
        THEN Outcome(stack, "Panic", None, "Error parsing")
        ELSE Outcome(Append(stack,
                 Template(event.name, inherits, built.properties, <<>>)),
                 "Continue", None, "")

(***************************************************************************)
(* parent.children.push(template) on the new top of the stack.             *)
(***************************************************************************)
\* (the child put in front of its siblings)
push_child_front(stack, template) ==
    [stack EXCEPT ![Len(stack)].children = <<template>> \o @]

push_child(stack, template) ==
    [stack EXCEPT ![Len(stack)].children = Append(@, template)]

(***************************************************************************)
(* src/src/template.rs parse_event: Some(template) is "Ok", None is        *)
(* "Continue". An EndElement on an empty stack returns None; an Error      *)
(* event panics.                                                           *)
(***************************************************************************)
parse_event(stack, event) ==
    CASE event.kind = "StartElement" -> start_element(stack, event)
      [] event.kind = "EndElement" ->
            IF stack = <<>>
            THEN Outcome(stack, "Continue", None, "")
            ELSE LET template == stack[Len(stack)]
                     rest     == SubSeq(stack, 1, Len(stack) - 1)
                 IN  IF rest # <<>>
                     THEN Outcome(push_child(rest, template), "Continue", None, "")
                     ELSE Outcome(rest, "Ok", Some(template), "")
      [] event.kind = "Error" -> Outcome(stack, "Panic", None, "Xml error")
      [] OTHER -> Outcome(stack, "Continue", None, "")

(***************************************************************************)
(* src/src/lib.rs from_event_reader, one turn of its while-let loop. An    *)
(* EndElement on an empty stack and an Error event both return Err.        *)
(***************************************************************************)
reader_event(stack, event) ==
    CASE event.kind = "StartElement" -> start_element(stack, event)
      [] event.kind = "EndElement" ->
            IF stack = <<>>
            THEN Outcome(stack, "Err", None, "Unbalanced xml tree")
            ELSE LET template == stack[Len(stack)]
                     rest     == SubSeq(stack, 1, Len(stack) - 1)
                 IN  IF rest # <<>>
                     THEN Outcome(push_child(rest, template), "Continue", None, "")
                     ELSE Outcome(rest, "Ok", Some(template), "")
      [] event.kind = "Error" -> Outcome(stack, "Err", None, "Xml error")
      [] OTHER -> Outcome(stack, "Continue", None, "")

(***************************************************************************)
(* The loop has run out of events: lib.rs line 75, template.rs line 32.    *)
(***************************************************************************)
exhausted(which, stack) ==
    IF which = "lib"
    THEN Outcome(stack, "Err", None, "Unbalanced xml tree")
    ELSE Outcome(stack, "Err", None, "No template parsed")

(***************************************************************************)
(* The events the model feeds the parser.                                  *)
(***************************************************************************)
ElemNames == {"Stone", "Candle"}

AttrLists ==
    { <<>>,
      <<Attr("x", "5"), Attr("inherits", "Rock"), Attr("y", "a")>>,
      <<Attr("inherits", "Rock"), Attr("y", "?")>> }

StartEvents == { StartElement(n, as) : n \in ElemNames, as \in AttrLists }

EndEvents == { EndElement(n) : n \in ElemNames }

XmlEvents == StartEvents \cup EndEvents \cup {ErrorEvent, OtherEvent}

NoLoad ==
    [node |-> [tag |-> "Nil"], before |-> <<>>, loaded |-> <<>>, msg |-> "",
     calls |-> 0]

NoFile == [stream |-> <<>>, pos |-> 0, parses |-> <<>>, phase |-> "none"]

NoCall ==
    [template |-> Template("", None, <<>>, <<>>), entity |-> 0, before |-> <<>>,
     earlier |-> <<>>, applications |-> 0]

(***************************************************************************)
(* Parsing one template. The parser pulls one event per step; the stream   *)
(* may also end at any point.                                              *)
(***************************************************************************)
Running == [kind |-> "Running", template |-> None, msg |-> ""]

Returned(o) ==
    IF o.kind = "Continue" THEN Running
    ELSE [kind |-> o.kind, template |-> o.template, msg |-> o.msg]

ParseInit ==
    /\ parser \in {"lib", "template"}
    /\ events = <<>>
    /\ template_stack = <<>>
    /\ result = Running
    /\ revision = "template"
    /\ templates = <<>>
    /\ system = <<>>
    /\ call = NoCall
    /\ status = "ready"
    /\ doc_events = FALSE
    /\ load = NoLoad
    /\ load_result = "idle"
    /\ file = NoFile

ParserNext ==
    /\ result.kind = "Running"
    /\ Len(events) < MaxEvents
    /\ \E e \in XmlEvents :
          LET o == IF parser = "lib" THEN reader_event(template_stack, e)
                                     ELSE parse_event(template_stack, e)
          IN  /\ events' = Append(events, e)
              /\ template_stack' = o.stack
              /\ result' = Returned(o)
    /\ UNCHANGED <<parser, applyVars, loadVars>>

ParserExhausted ==
    /\ result.kind = "Running"
    /\ result' = Returned(exhausted(parser, template_stack))
    /\ UNCHANGED <<parser, events, template_stack, applyVars, loadVars>>

ParseNext == ParserNext \/ ParserExhausted

SpecParse == ParseInit /\ [][ParseNext]_vars

(***************************************************************************)
(* What a well-nested event sequence denotes, read off the sequence        *)
(* itself (not by running the stack): the element events, the nesting      *)
(* depth after each of them, the end that closes a start, and the tree.    *)
(***************************************************************************)
IsElem(e) == e.kind \in {"StartElement", "EndElement"}

Elems(evs) == SelectSeq(evs, IsElem)

Starts(es, i) == Cardinality({j \in 1..i : es[j].kind = "StartElement"})

Ends(es, i) == Cardinality({j \in 1..i : es[j].kind = "EndElement"})

Bal(es, i) == Starts(es, i) - Ends(es, i)

Close(es, i) ==
    CHOOSE j \in (i + 1)..Len(es) :
        /\ Bal(es, j) = Bal(es, i) - 1
        /\ \A k \in i..(j - 1) : Bal(es, k) >= Bal(es, i)

NoErrorEvent(evs) == \A i \in 1..Len(evs) : evs[i].kind # "Error"

\* Every end so far closes an open element of the same name, and the first
\* element is not closed before the last event.
ViablePrefix(evs) ==
    LET es == Elems(evs)
    IN  /\ NoErrorEvent(evs)
        /\ \A i \in 1..Len(es) : Bal(es, i) >= 0
        /\ \A i \in 1..(Len(es) - 1) : Bal(es, i) > 0
        /\ \A i \in 1..Len(es) :
              (es[i].kind = "StartElement" /\ \E j \in (i + 1)..Len(es) :
                    Bal(es, j) < Bal(es, i))
                 => es[Close(es, i)].name = es[i].name

\* One top-level element, complete, ending with the event that closes it.
WellNested(evs) ==
    LET es == Elems(evs)
    IN  /\ es # <<>>
        /\ evs[Len(evs)].kind = "EndElement"
        /\ Bal(es, Len(es)) = 0
        /\ ViablePrefix(evs)

AllParse(evs) ==
    \A i \in 1..Len(evs) : \A k \in 1..Len(evs[i].attributes) :
        evs[i].attributes[k].name # "inherits"
            => propnode_parse(evs[i].attributes[k].value).ok

RECURSIVE Ascending(_)
Ascending(S) ==
    IF S = {} THEN <<>>
    ELSE LET m == CHOOSE x \in S : \A y \in S : x <= y
         IN  <<m>> \o Ascending(S \ {m})

IsProperty(a) == a.name # "inherits"

ExpectedProperties(attributes) ==
    LET own == SelectSeq(attributes, IsProperty)
    IN  [k \in 1..Len(own) |-> <<own[k].name, propnode_parse(own[k].value).node>>]

ExpectedInherits(attributes) ==
    LET at == {k \in 1..Len(attributes) : attributes[k].name = "inherits"}
    IN  IF at = {} THEN None
        ELSE Some(attributes[CHOOSE k \in at : \A l \in at : k <= l].value)

RECURSIVE TreeAt(_, _)
TreeAt(es, i) ==
    LET nested == {j \in (i + 1)..(Close(es, i) - 1) :
                      /\ es[j].kind = "StartElement"
                      /\ Bal(es, j) = Bal(es, i) + 1}
        order  == Ascending(nested)
    IN  [type_name  |-> es[i].name,
         inherits   |-> ExpectedInherits(es[i].attributes),
         properties |-> ExpectedProperties(es[i].attributes),
         children   |-> [k \in 1..Len(order) |-> TreeAt(es, order[k])]]

TreeOf(evs) == TreeAt(Elems(evs), 1)

RECURSIVE NoInheritsKey(_)
NoInheritsKey(t) ==
    /\ \A k \in 1..Len(t.properties) : t.properties[k][1] # "inherits"
    /\ \A c \in 1..Len(t.children) : NoInheritsKey(t.children[c])

\* C6 as stated: fed a well-nested sequence, the parser reads all of it and
\* returns the tree the sequence denotes; it neither returns nor panics
\* before the sequence is complete.
C6_AsStated ==
    /\ WellNested(events) =>
          /\ result.kind = "Ok"
          /\ result.template = Some(TreeOf(events))
    /\ result.kind \in {"Ok", "Panic"} =>
          ~(ViablePrefix(events) /\ ~WellNested(events))

\* C6, amended: fed a well-nested sequence whose attribute values the
\* property-expression parser accepts, the parser reads all of it and
\* returns the tree the sequence denotes (type_name the element name,
\* properties the non-inherits attributes in attribute order, children the
\* directly nested elements in document order, other events ignored).
C6_TreeConstruction ==
    /\ WellNested(events) =>
          /\ result.kind = "Ok"
          /\ result.template = Some(TreeOf(events))
    /\ result.kind \in {"Ok", "Panic"} =>
          ~(ViablePrefix(events) /\ AllParse(events) /\ ~WellNested(events))

C6_Witness ==
    /\ WellNested(events)
    /\ result.kind = "Ok"
    /\ Len(result.template[1].children) = 2
    /\ Len(result.template[1].properties) = 2
    /\ result.template[1].children[1].type_name
          # result.template[1].children[2].type_name

\* C7: a template just pushed for a StartElement has the value of the
\* inherits attribute as its inherits reference (None when there is none),
\* and no template under construction or returned has, at any depth, a
\* property keyed inherits.
C7_ReservedInherits ==
    /\ (/\ events # <<>>
        /\ events[Len(events)].kind = "StartElement"
        /\ result.kind = "Running")
          => /\ template_stack # <<>>
             /\ template_stack[Len(template_stack)].inherits
                    = ExpectedInherits(events[Len(events)].attributes)
    /\ \A i \in 1..Len(template_stack) : NoInheritsKey(template_stack[i])
    /\ result.kind = "Ok" => NoInheritsKey(result.template[1])

C7_Witness ==
    /\ Len(template_stack) = 2
    /\ template_stack[2].inherits = Some("Rock")
    /\ template_stack[2].properties # <<>>
    /\ template_stack[1].inherits = None
    /\ events[Len(events)].kind = "StartElement"

\* C8: an EndElement pulled while the stack is empty makes the parser
\* return the "unbalanced tree" error, and running out of events while the
\* stack is non-empty makes it return an error; no template is returned.
C8_UnbalancedIsFatal ==
    [][ /\ (/\ result.kind = "Running"
            /\ template_stack = <<>>
            /\ Len(events') = Len(events) + 1
            /\ events'[Len(events')].kind = "EndElement")
              => (result'.kind = "Err" /\ result'.msg = "Unbalanced xml tree")
        /\ (/\ result.kind = "Running"
            /\ template_stack # <<>>
            /\ events' = events
            /\ result' # result)
              => result'.kind = "Err" ]_vars

(***************************************************************************)
(* The entity store (pyramid's System), seen through the calls apply       *)
(* makes. An entity has a type name, an optional name, properties (None    *)
(* where the key is unset) and the ids of its children in creation order.  *)
(***************************************************************************)
PropKeys == {"x", "y"}

NoProperties == [k \in PropKeys |-> None]

Entity(type_name, name, properties, children) ==
    [type_name |-> type_name, name |-> name,
     properties |-> properties, children |-> children]

\* (the key looked up on the entity before this one)
has_property_shifted(sys, entity_id, k) ==
    IF entity_id \in 2..Len(sys)
    THEN [ok |-> TRUE, has |-> sys[entity_id - 1].properties[k] # None]
    ELSE [ok |-> FALSE, has |-> FALSE]

has_property(sys, entity_id, k) ==
    IF entity_id \in 1..Len(sys)
    THEN [ok |-> TRUE, has |-> sys[entity_id].properties[k] # None]
    ELSE [ok |-> FALSE, has |-> FALSE]

set_property(sys, entity_id, k, v) ==
    IF entity_id \in 1..Len(sys)
    THEN [sys EXCEPT ![entity_id].properties[k] = Some(v)]
    ELSE sys

\* (the new entity hung under the root, whatever the parent)
append_entity_to_root(sys, parent, type_name, name) ==
    IF parent \in 1..Len(sys)
    THEN [ok |-> TRUE, id |-> Len(sys) + 1,
          system |-> Append([sys EXCEPT ![1].children = Append(@, Len(sys) + 1)],
                            Entity(type_name, name, NoProperties, <<>>))]
    ELSE [ok |-> FALSE, id |-> 0, system |-> sys]

append_entity(sys, parent, type_name, name) ==
    IF parent \in 1..Len(sys)
    THEN [ok |-> TRUE, id |-> Len(sys) + 1,
          system |-> Append([sys EXCEPT ![parent].children = Append(@, Len(sys) + 1)],
                            Entity(type_name, name, NoProperties, <<>>))]
    ELSE [ok |-> FALSE, id |-> 0, system |-> sys]

(***************************************************************************)
(* Template::apply. The two revisions differ in the property loop only.    *)
(***************************************************************************)
\* src/src/template.rs: set the key only if has_property says it is unset.
RECURSIVE set_if_absent(_, _, _, _)
set_if_absent(properties, i, sys, entity_id) ==
    IF i > Len(properties) THEN sys
    ELSE LET k   == properties[i][1]
             v   == properties[i][2]
             has == has_property(sys, entity_id, k)
         IN  set_if_absent(properties, i + 1,
                 IF has.ok /\ ~has.has THEN set_property(sys, entity_id, k, v)
                                       ELSE sys,
                 entity_id)

\* src/src/lib.rs: set every key.
RECURSIVE set_always(_, _, _, _)
set_always(properties, i, sys, entity_id) ==
    IF i > Len(properties) THEN sys
    ELSE set_always(properties, i + 1,
             set_property(sys, entity_id, properties[i][1], properties[i][2]),
             entity_id)

set_properties(rev, properties, sys, entity_id) ==
    IF rev = "template" THEN set_if_absent(properties, 1, sys, entity_id)
                        ELSE set_always(properties, 1, sys, entity_id)

Applied(kind, sys) == [kind |-> kind, system |-> sys]

RECURSIVE apply(_, _, _, _, _, _)
RECURSIVE apply_children(_, _, _, _, _, _, _)

\* (the base applied without the registry: its own base is not looked up)
apply_inherits_flat(rev, self, registry, sys, entity_id, depth) ==
    IF self.inherits # None /\ self.inherits[1] \in DOMAIN registry
    THEN apply(rev, registry[self.inherits[1]], <<>>, sys, entity_id, depth - 1)
    ELSE Applied("Ok", sys)

\* (templates.get(inherits).unwrap(): a missing base panics)
apply_inherits_unwrap(rev, self, registry, sys, entity_id, depth) ==
    IF self.inherits = None THEN Applied("Ok", sys)
    ELSE IF self.inherits[1] \in DOMAIN registry
    THEN apply(rev, registry[self.inherits[1]], registry, sys, entity_id, depth - 1)
    ELSE Applied("Panic", sys)

\* (templates.get(&self.type_name): the template's own name is looked up)
apply_inherits_own_name(rev, self, registry, sys, entity_id, depth) ==
    IF self.inherits # None /\ self.type_name \in DOMAIN registry
    THEN apply(rev, registry[self.type_name], registry, sys, entity_id, depth - 1)
    ELSE Applied("Ok", sys)

\* if let Some(inherits_template) = templates.get(inherits) { ...apply... }
apply_inherits(rev, self, registry, sys, entity_id, depth) ==
    IF self.inherits # None /\ self.inherits[1] \in DOMAIN registry
    THEN apply(rev, registry[self.inherits[1]], registry, sys, entity_id, depth - 1)
    ELSE Applied("Ok", sys)

\* (a child is created only if the entity has no child of that type yet)
RECURSIVE apply_children_once(_, _, _, _, _, _, _)
apply_children_once(rev, children, i, registry, sys, entity_id, depth) ==
    IF i > Len(children) THEN Applied("Ok", sys)
    ELSE IF \E c \in 1..Len(sys[entity_id].children) :
                sys[sys[entity_id].children[c]].type_name = children[i].type_name
         THEN apply_children_once(rev, children, i + 1, registry, sys, entity_id,
                                  depth)
    ELSE LET e == append_entity(sys, entity_id, children[i].type_name, None)
         IN  IF ~e.ok THEN Applied("Panic", sys)
             ELSE LET r == apply(rev, children[i], registry, e.system, e.id, depth - 1)
                  IN  IF r.kind # "Ok" THEN r
                      ELSE apply_children_once(rev, children, i + 1, registry,
                                               r.system, entity_id, depth)

\* for ref template in &self.children { append_entity(..).unwrap(); apply }
apply_children(rev, children, i, registry, sys, entity_id, depth) ==
    IF i > Len(children) THEN Applied("Ok", sys)
    ELSE LET e == append_entity(sys, entity_id, children[i].type_name, None)
         IN  IF ~e.ok THEN Applied("Panic", sys)
             ELSE LET r == apply(rev, children[i], registry, e.system, e.id, depth - 1)
                  IN  IF r.kind # "Ok" THEN r
                      ELSE apply_children(rev, children, i + 1, registry,
                                          r.system, entity_id, depth)

\* (the children created before the base is applied)
apply_children_first(rev, self, registry, sys, entity_id, depth) ==
    IF depth = 0 THEN Applied("Overflow", sys)
    ELSE LET kids == apply_children(rev, self.children, 1, registry, sys,
                                    entity_id, depth)
         IN  IF kids.kind # "Ok" THEN kids
             ELSE LET base == apply_inherits(rev, self, registry, kids.system,
                                             entity_id, depth)
                  IN  IF base.kind # "Ok" THEN base
                      ELSE Applied("Ok", set_properties(rev, self.properties,
                                                        base.system, entity_id))

\* depth is the room left on the call stack: a call with none left is the
\* stack overflow an inherits cycle runs into.
apply(rev, self, registry, sys, entity_id, depth) ==
    IF depth = 0 THEN Applied("Overflow", sys)
    ELSE LET base == apply_inherits(rev, self, registry, sys, entity_id, depth)
         IN  IF base.kind # "Ok" THEN base
             ELSE apply_children(rev, self.children, 1, registry,
                      set_properties(rev, self.properties, base.system, entity_id),
                      entity_id, depth)

(***************************************************************************)
(* The templates, registries and store the model applies.                  *)
(***************************************************************************)
ValOf(n) == CASE n = "Stone" -> 1 [] n = "Rock" -> 2 [] n = "Granit" -> 3 [] OTHER -> 0

KeySeqs ==
    {ks \in UNION {[1..n -> PropKeys] : n \in 0..MaxProps} :
        \A i, j \in DOMAIN ks : i # j => ks[i] # ks[j]}

PropLists(n) == {[i \in DOMAIN ks |-> <<ks[i], Integer(ValOf(n))>>] : ks \in KeySeqs}

\* The children a template may declare: the first inherits from the
\* registry, the second has a property and a child of its own.
KidName(owner, i) ==
    CASE owner = "Stone"  -> <<"StoneA", "StoneB", "StoneC", "StoneD">>[i]
      [] owner = "Rock"   -> <<"RockA", "RockB", "RockC", "RockD">>[i]
      [] owner = "Granit" -> <<"GranitA", "GranitB", "GranitC", "GranitD">>[i]

Kid(owner, i) ==
    CASE i = 1 -> Template(KidName(owner, 1), Some("Granit"), <<>>, <<>>)
      [] i = 2 -> Template(KidName(owner, 2), None, <<<<"y", Integer(ValOf(owner) + 10)>>>>,
                           <<Template("Wick", None, <<>>, <<>>)>>)
      [] OTHER -> Template(KidName(owner, i), None, <<>>, <<>>)

ChildLists(owner) == {[i \in 1..n |-> Kid(owner, i)] : n \in 0..MaxChildren}

BaseOf(n) == CASE n = "Stone" -> "Rock" [] n = "Rock" -> "Granit" [] OTHER -> "Rock"

TemplatesNamed(n) ==
    {Template(n, inh, ps, cs) :
        inh \in {None, Some(BaseOf(n))}, ps \in PropLists(n), cs \in ChildLists(n)}

Registries ==
    {<<>>}
    \cup {[k \in {"Rock"} |-> r] : r \in TemplatesNamed("Rock")}
    \cup {[k \in {"Granit"} |-> g] : g \in TemplatesNamed("Granit")}
    \cup {[k \in {"Rock", "Granit"} |-> IF k = "Rock" THEN r ELSE g] :
             r \in TemplatesNamed("Rock"), g \in TemplatesNamed("Granit")}

\* Entities 2 and 5 are fresh; entity 3 already has x and a child.
InitialStore ==
    << Entity("Root", None, NoProperties, <<2, 3, 5>>),
       Entity("Stone", Some("tmp"), NoProperties, <<>>),
       Entity("Stone", Some("old"), [NoProperties EXCEPT !["x"] = Some(Integer(7))], <<4>>),
       Entity("Moss", None, [NoProperties EXCEPT !["y"] = Some(Integer(7))], <<>>),
       Entity("Stone", Some("new"), NoProperties, <<>>) >>

Targets == {2, 3}

ApplyInit ==
    /\ parser = "lib"
    /\ events = <<>>
    /\ template_stack = <<>>
    /\ result = Running
    /\ revision \in {"template", "lib"}
    /\ templates \in Registries
    /\ system = InitialStore
    /\ call = NoCall
    /\ status = "ready"
    /\ doc_events = FALSE
    /\ load = NoLoad
    /\ load_result = "idle"
    /\ file = NoFile

\* template.apply(&templates, &mut system, &ent)
ApplyCall ==
    /\ status = "ready"
    /\ \E t \in TemplatesNamed("Stone"), e \in Targets :
          LET r == apply(revision, t, templates, system, e, MaxDepth)
          IN  /\ call' = [template |-> t, entity |-> e, before |-> system,
                           earlier |-> <<>>, applications |-> 1]
              /\ system' = IF r.kind = "Ok" THEN r.system ELSE system
              /\ status' = IF r.kind = "Ok" THEN "done" ELSE "aborted"
    /\ UNCHANGED <<parseVars, revision, templates, loadVars>>

\* the same template applied to the same entity once more
ApplyAgain ==
    /\ status = "done"
    /\ call.applications < MaxApplications
    /\ LET r == apply(revision, call.template, templates, system, call.entity,
                      MaxDepth)
       IN  /\ call' = [call EXCEPT !.before = system, !.earlier = call.before,
                                   !.applications = @ + 1]
           /\ system' = IF r.kind = "Ok" THEN r.system ELSE system
           /\ status' = IF r.kind = "Ok" THEN "done" ELSE "aborted"
    /\ UNCHANGED <<parseVars, revision, templates, loadVars>>

ApplyNext == ApplyCall \/ ApplyAgain

SpecApply == ApplyInit /\ [][ApplyNext]_vars

(***************************************************************************)
(* What an apply call is expected to leave, read off the templates: the    *)
(* inheritance chain of a template (base-most first), the keys a template  *)
(* declares, and the children the chain declares.                          *)
(***************************************************************************)
RECURSIVE ChainFrom(_, _, _)
ChainFrom(t, registry, seen) ==
    IF t.inherits = None \/ t.inherits[1] \notin DOMAIN registry
                         \/ t.inherits[1] \in seen
    THEN <<t>>
    ELSE ChainFrom(registry[t.inherits[1]], registry, seen \cup {t.inherits[1]})
            \o <<t>>

Chain(t, registry) == ChainFrom(t, registry, {})

Declares(t, k) == \E i \in 1..Len(t.properties) : t.properties[i][1] = k

Declared(t, k) ==
    t.properties[CHOOSE i \in 1..Len(t.properties) :
                    /\ t.properties[i][1] = k
                    /\ \A j \in 1..(i - 1) : t.properties[j][1] # k][2]

RECURSIVE Concat(_)
Concat(ss) == IF ss = <<>> THEN <<>> ELSE Head(ss) \o Concat(Tail(ss))

ChainChildren(t, registry) ==
    LET ch == Chain(t, registry)
    IN  Concat([i \in 1..Len(ch) |-> ch[i].children])

Target == call.entity

Before == call.before

\* C1 as stated: a key the target has when apply starts keeps its value.
C1_NonOverwrite ==
    status = "done" =>
        \A k \in PropKeys :
            Before[Target].properties[k] # None
                => system[Target].properties[k] = Before[Target].properties[k]

\* C2 as stated: a key the target lacks and the chain declares ends up with
\* the value of the base-most template of the chain that declares it.
C2_BaseWins ==
    status = "done" =>
        \A k \in PropKeys :
            LET ch    == Chain(call.template, templates)
                decl  == {i \in 1..Len(ch) : Declares(ch[i], k)}
            IN  (Before[Target].properties[k] = None /\ decl # {})
                   => system[Target].properties[k]
                        = Some(Declared(ch[CHOOSE i \in decl : \A j \in decl : i <= j], k))

\* C3: applied to an entity without properties, a template leaves the
\* entity with every key any template of its inheritance chain declares,
\* each with a value the chain declares for it.
C3_InheritanceComplete ==
    (status = "done" /\ Before[Target].properties = NoProperties) =>
        LET ch == Chain(call.template, templates)
        IN  \A k \in PropKeys :
               IF \E i \in 1..Len(ch) : Declares(ch[i], k)
               THEN \E i \in 1..Len(ch) :
                       /\ Declares(ch[i], k)
                       /\ system[Target].properties[k] = Some(Declared(ch[i], k))
               ELSE system[Target].properties[k] = None

C3_Witness ==
    /\ status = "done"
    /\ Before[Target].properties = NoProperties
    /\ Len(Chain(call.template, templates)) = 3
    /\ call.template.properties = <<>>
    /\ ~Declares(templates["Rock"], "y")
    /\ Declares(templates["Granit"], "y")
    /\ system[Target].properties["x"] # None
    /\ system[Target].properties["y"] # None

MissingBase ==
    /\ call.template.inherits # None
    /\ call.template.inherits[1] \notin DOMAIN templates

\* C4: applying a template whose inherits name is not in the registry ends
\* as applying the same template with inherits unset does, and leaves the
\* same store.
C4_MissingBaseNoOp ==
    (status # "ready" /\ MissingBase) =>
        LET r == apply(revision, [call.template EXCEPT !.inherits = None],
                       templates, Before, Target, MaxDepth)
        IN  /\ (status = "done") = (r.kind = "Ok")
            /\ status = "done" => system = r.system

C4_Witness ==
    /\ status = "done"
    /\ MissingBase
    /\ Len(call.template.properties) = 2
    /\ Len(call.template.children) = 2
    /\ DOMAIN templates = {"Granit"}
    /\ Len(system) > Len(Before)

RECURSIVE Materialized(_, _, _, _)
Materialized(sys, entity_id, kids, old) ==
    LET ch == sys[entity_id].children
    IN  /\ Len(ch) = old + Len(kids)
        /\ \A i \in 1..Len(kids) :
              LET c == ch[old + i]
              IN  /\ sys[c].type_name = kids[i].type_name
                  /\ sys[c].name = None
                  /\ \A k \in PropKeys :
                        (\E j \in 1..Len(Chain(kids[i], templates)) :
                            Declares(Chain(kids[i], templates)[j], k))
                          <=> sys[c].properties[k] # None
                  /\ Materialized(sys, c, ChainChildren(kids[i], templates), 0)

RECURSIVE Descendants(_)
Descendants(kids) ==
    IF kids = <<>> THEN 0
    ELSE 1 + Descendants(ChainChildren(Head(kids), templates))
           + Descendants(Tail(kids))

\* C5: apply appends to the target, after the children it had, one new
\* unnamed entity per child template, of the child's type: those of the
\* base chain first (base-most first), then the template's own, each in
\* declaration order, every child template applied to its new entity; and
\* it creates no other entity.
C5_ChildrenMaterialized ==
    status = "done" =>
        LET kids == ChainChildren(call.template, templates)
            old  == Before[Target].children
        IN  /\ SubSeq(system[Target].children, 1, Len(old)) = old
            /\ Materialized(system, Target, kids, Len(old))
            /\ Len(system) = Len(Before) + Descendants(kids)

C5_Witness ==
    /\ status = "done"
    /\ Target = 3
    /\ Len(call.template.children) = 2
    /\ Len(Chain(call.template, templates)) = 2
    /\ Len(templates["Rock"].children) = 2
    /\ Len(system[Target].children) = 5
    /\ system[system[Target].children[2]].type_name = "RockA"
    /\ system[system[Target].children[5]].type_name = "StoneB"

(***************************************************************************)
(* The subtree of an entity as a structure: its properties and, in order,  *)
(* the type names and subtrees of its children; entity ids left out.       *)
(***************************************************************************)
RECURSIVE Shape(_, _)
Shape(sys, e) ==
    [properties |-> sys[e].properties,
     children   |-> [i \in 1..Len(sys[e].children) |->
                        [type_name |-> sys[sys[e].children[i]].type_name,
                         subtree   |-> Shape(sys, sys[e].children[i])]]]

Fresh(sys, e) == sys[e].properties = NoProperties /\ sys[e].children = <<>>

\* C12: applied to a fresh entity, a template leaves the subtree (the
\* properties and their values, the type names of the children in order,
\* recursively) that applying it, from the same store, to any other fresh
\* entity leaves under that entity.
C12_Determinism ==
    (status = "done" /\ Fresh(Before, Target)) =>
        \A e \in 1..Len(Before) :
            (e # Target /\ Fresh(Before, e)) =>
                LET r == apply(revision, call.template, templates, Before, e,
                               MaxDepth)
                IN  /\ r.kind = "Ok"
                    /\ Shape(r.system, e) = Shape(system, Target)

C12_Witness ==
    /\ status = "done"
    /\ Target = 2
    /\ Fresh(Before, 2) /\ Fresh(Before, 5)
    /\ Len(call.template.properties) = 2
    /\ Len(Chain(call.template, templates)) = 3
    /\ Len(system[Target].children) >= 3
    /\ Len(system) > Len(Before) + 3

(***************************************************************************)
(* The calls of apply a template leads to: one for the base the registry   *)
(* has for it, one for each of its children. A template met again on the   *)
(* way down is applied without end.                                        *)
(***************************************************************************)
Callees(t, registry) ==
    {t.children[i] : i \in 1..Len(t.children)}
    \cup (IF t.inherits # None /\ t.inherits[1] \in DOMAIN registry
          THEN {registry[t.inherits[1]]} ELSE {})

RECURSIVE Revisits(_, _, _)
Revisits(t, registry, path) ==
    \/ t \in path
    \/ \E s \in Callees(t, registry) : Revisits(s, registry, path \cup {t})

RECURSIVE Within(_)
Within(t) == {t} \cup UNION {Within(t.children[i]) : i \in 1..Len(t.children)}

RECURSIVE InheritsRevisits(_, _, _)
InheritsRevisits(t, registry, path) ==
    \/ t \in path
    \/ /\ t.inherits # None
       /\ t.inherits[1] \in DOMAIN registry
       /\ InheritsRevisits(registry[t.inherits[1]], registry, path \cup {t})

InheritsAcyclic ==
    \A u \in Within(call.template)
              \cup UNION {Within(templates[k]) : k \in DOMAIN templates} :
        ~InheritsRevisits(u, templates, {})

\* C13 as stated: apply returns whenever following inherits from any
\* template, top-level or nested, through the registry never revisits a
\* template.
C13_AsStated ==
    (status # "ready" /\ InheritsAcyclic) => status = "done"

\* C13, amended: apply returns exactly when no template is met again on a
\* way from the applied template along inherits references (through the
\* registry) and child templates taken together.
C13_Termination ==
    status # "ready" =>
        ((status = "done") <=> ~Revisits(call.template, templates, {}))

C13_Witness ==
    /\ status = "done"
    /\ Len(Chain(call.template, templates)) = 3
    /\ Len(call.template.children) = 2
    /\ Len(templates["Rock"].children) = 2
    /\ Len(templates["Granit"].children) = 0

RECURSIVE Beneath(_, _, _)
Beneath(sys, ancestor, e) ==
    \E p \in 1..(e - 1) :
        /\ \E c \in 1..Len(sys[p].children) : sys[p].children[c] = e
        /\ (p = ancestor \/ Beneath(sys, ancestor, p))

\* C17: an apply call that returns leaves every entity there was, other
\* than its target, with the properties and children it had; every entity
\* it creates is beneath the target; and the registry is what it was.
C17_ApplyFrame ==
    [][ (status' = "done" /\ call' # call) =>
            /\ templates' = templates
            /\ Len(system') >= Len(system)
            /\ \A i \in 1..Len(system) :
                  i # call'.entity => system'[i] = system[i]
            /\ \A i \in (Len(system) + 1)..Len(system') :
                  Beneath(system', call'.entity, i) ]_vars

C17_Witness ==
    /\ status = "done"
    /\ Target = 3
    /\ Len(system) > Len(Before) + 2
    /\ system[Target].properties # Before[Target].properties
    /\ Len(system[Target].children) > Len(Before[Target].children)
    /\ system[4] = Before[4]

\* C18: applying the template to the same entity once more changes no
\* property of the entity, and appends as many children as the
\* application before did: one per child template of the template and of
\* its inheritance chain.
C18_Reapplication ==
    (status = "done" /\ call.applications >= 2) =>
        /\ system[Target].properties = Before[Target].properties
        /\ Len(system[Target].children) - Len(Before[Target].children)
              = Len(Before[Target].children) - Len(call.earlier[Target].children)
        /\ Len(system[Target].children) - Len(Before[Target].children)
              = Len(ChainChildren(call.template, templates))
        /\ SubSeq(system[Target].children, 1, Len(Before[Target].children))
              = Before[Target].children

C18_Witness ==
    /\ status = "done"
    /\ call.applications = 2
    /\ Target = 3
    /\ Len(call.template.properties) = 2
    /\ Len(Before[Target].children) = 5
    /\ Len(system[Target].children) = 9

(***************************************************************************)
(* The registry and its loaders (src/src/lib.rs TemplateSubSystem).        *)
(***************************************************************************)
\* (HashMap::entry(..).or_insert(..): an existing definition is kept)
insert_if_vacant(registry, template) ==
    [k \in DOMAIN registry \cup {template.type_name} |->
        IF k \in DOMAIN registry THEN registry[k] ELSE template]

\* (the children of the template entered under their own names as well)
insert_with_children(registry, template) ==
    LET kids == {template.children[i].type_name : i \in 1..Len(template.children)}
    IN  [k \in DOMAIN registry \cup {template.type_name} \cup kids |->
            IF k = template.type_name THEN template
            ELSE IF k \in kids
                 THEN template.children[CHOOSE i \in 1..Len(template.children) :
                                            template.children[i].type_name = k]
                 ELSE registry[k]]

\* self.templates.insert(template.type_name.clone(), template)
insert(registry, template) ==
    [k \in DOMAIN registry \cup {template.type_name} |->
        IF k = template.type_name THEN template ELSE registry[k]]

(***************************************************************************)
(* xml's EventReader: the events of a text. The model knows the texts      *)
(* below; a text that ends inside an element ends in an Error event.       *)
(* Whether a document is bracketed by StartDocument and EndDocument        *)
(* events (both "Other" to the parser) is the tokenizer's choice.          *)
(***************************************************************************)
Element(n, as, inner) == <<StartElement(n, as)>> \o inner \o <<EndElement(n)>>

Rock5 == Element("Rock", <<Attr("x", "5")>>, <<>>)

Rock7 == Element("Rock", <<Attr("x", "7")>>, Element("Candle", <<>>, <<>>))

Granit == Element("Granit", <<Attr("inherits", "Rock"), Attr("y", "a")>>, <<>>)

ElementEvents(text) ==
    CASE text = "<Rock x='5'/>" -> Rock5
      [] text = "<Rock x='7'><Candle/></Rock>" -> Rock7
      [] text = "<Granit inherits='Rock' y='a'/>" -> Granit
      [] text = "<Templates><Rock x='5'/><Granit inherits='Rock' y='a'/></Templates>"
            -> Element("Templates", <<>>, Rock5 \o Granit)
      [] OTHER -> <<>>

Truncated(text) == text = "<Templates><Rock x='5'/>"

TruncatedEvents(text) ==
    <<StartElement("Templates", <<>>)>> \o Rock5 \o <<ErrorEvent>>

EventReader(text, bracketed) ==
    IF Truncated(text)
    THEN (IF bracketed THEN <<OtherEvent>> ELSE <<>>) \o TruncatedEvents(text)
    ELSE IF bracketed THEN <<OtherEvent>> \o ElementEvents(text) \o <<OtherEvent>>
                      ELSE ElementEvents(text)

(***************************************************************************)
(* from_event_reader on the events from position pos on: the loop over     *)
(* reader_event from an empty stack. at is the first event not consumed.   *)
(***************************************************************************)
\* (one event more is pulled after the template is complete)
RECURSIVE reader_loop_overrun(_, _, _)
reader_loop_overrun(stream, pos, stack) ==
    IF pos > Len(stream)
    THEN [exhausted("lib", stack) EXCEPT !.stack = pos]
    ELSE LET o == reader_event(stack, stream[pos])
         IN  IF o.kind = "Continue" THEN reader_loop_overrun(stream, pos + 1, o.stack)
             ELSE IF o.kind = "Ok" THEN [o EXCEPT !.stack = pos + 2]
             ELSE [o EXCEPT !.stack = pos + 1]

\* (an EndElement on an empty stack is looked at but not taken)
RECURSIVE reader_loop_peek(_, _, _)
reader_loop_peek(stream, pos, stack) ==
    IF pos > Len(stream)
    THEN [exhausted("lib", stack) EXCEPT !.stack = pos]
    ELSE LET o == reader_event(stack, stream[pos])
         IN  IF o.kind = "Continue" THEN reader_loop_peek(stream, pos + 1, o.stack)
             ELSE IF o.kind = "Err" /\ stream[pos].kind = "EndElement"
                  THEN [o EXCEPT !.stack = pos]
             ELSE [o EXCEPT !.stack = pos + 1]

RECURSIVE reader_loop(_, _, _)
reader_loop(stream, pos, stack) ==
    IF pos > Len(stream)
    THEN [exhausted("lib", stack) EXCEPT !.stack = pos]
    ELSE LET o == reader_event(stack, stream[pos])
         IN  IF o.kind = "Continue" THEN reader_loop(stream, pos + 1, o.stack)
             ELSE [o EXCEPT !.stack = pos + 1]

from_event_reader(stream, pos) ==
    LET r == reader_loop(stream, pos, <<>>)
    IN  [kind |-> r.kind, template |-> r.template, msg |-> r.msg, at |-> r.stack]

\* src/src/lib.rs from_string
from_string(text, bracketed) == from_event_reader(EventReader(text, bracketed), 1)

(***************************************************************************)
(* load_templates_from_file: the first event is dropped, then              *)
(* from_event_reader is called until no event is left; a template returned *)
(* is inserted, an error returned is dropped. A path that is no file, and  *)
(* a panic of the parser, panic.                                           *)
(***************************************************************************)
FileSystem ==
    [path \in {"a.xml", "c.xml"} |->
        CASE path = "a.xml"
               -> "<Templates><Rock x='5'/><Granit inherits='Rock' y='a'/></Templates>"
          [] path = "c.xml" -> "<Templates><Rock x='5'/>"]

Loaded(kind, msg, registry) == [kind |-> kind, msg |-> msg, templates |-> registry]

RECURSIVE file_loop(_, _, _)
file_loop(registry, stream, pos) ==
    IF pos > Len(stream) THEN Loaded("Ok", "", registry)
    ELSE LET r == from_event_reader(stream, pos)
         IN  CASE r.kind = "Panic" -> Loaded("Panic", r.msg, registry)
               [] r.kind = "Ok" ->
                     file_loop(insert(registry, r.template[1]), stream, r.at)
               [] OTHER -> file_loop(registry, stream, r.at)

load_templates_from_file(registry, path, bracketed) ==
    IF path \notin DOMAIN FileSystem
    THEN Loaded("Panic", "File::open", registry)
    ELSE file_loop(registry, EventReader(FileSystem[path], bracketed), 2)

(***************************************************************************)
(* The directive: a PropNode. load_templates walks the array in order and  *)
(* returns at the first entry it cannot translate; what earlier entries    *)
(* inserted stays.                                                         *)
(***************************************************************************)
Str(text) == [tag |-> "String", int |-> 0, str |-> text]

Transform(name, arg) == [tag |-> "Transform", name |-> name, arg |-> arg]

Array(items) == [tag |-> "Array", items |-> items]

RECURSIVE load_entries(_, _, _, _)

\* (an entry that is no template and no templates_from_file is passed over)
RECURSIVE load_entries_lenient(_, _, _, _)
load_entries_lenient(registry, items, i, bracketed) ==
    IF i > Len(items) THEN Loaded("Ok", "", registry)
    ELSE LET pn == items[i]
         IN  IF pn.tag # "Transform" THEN Loaded("Err", "as_transform", registry)
             ELSE CASE pn.name = "template" ->
                         IF pn.arg.tag # "String"
                         THEN Loaded("Err", "as_string", registry)
                         ELSE LET r == from_string(pn.arg.str, bracketed)
                              IN  IF r.kind # "Ok"
                                  THEN Loaded("Panic", r.msg, registry)
                                  ELSE load_entries_lenient(
                                           insert(registry, r.template[1]),
                                           items, i + 1, bracketed)
                    [] pn.name = "templates_from_file" ->
                         IF pn.arg.tag # "String"
                         THEN Loaded("Err", "as_string", registry)
                         ELSE LET f == load_templates_from_file(registry,
                                           pn.arg.str, bracketed)
                              IN  IF f.kind # "Ok" THEN f
                                  ELSE load_entries_lenient(f.templates, items,
                                                            i + 1, bracketed)
                    [] OTHER -> load_entries_lenient(registry, items, i + 1,
                                                     bracketed)

load_entries(registry, items, i, bracketed) ==
    IF i > Len(items) THEN Loaded("Ok", "", registry)
    ELSE LET pn == items[i]
         IN  IF pn.tag # "Transform" THEN Loaded("Err", "as_transform", registry)
             ELSE CASE pn.name = "template" ->
                         IF pn.arg.tag # "String"
                         THEN Loaded("Err", "as_string", registry)
                         ELSE LET r == from_string(pn.arg.str, bracketed)
                              IN  IF r.kind # "Ok"
                                  THEN Loaded("Panic", r.msg, registry)
                                  ELSE load_entries(insert(registry, r.template[1]),
                                                    items, i + 1, bracketed)
                    [] pn.name = "templates_from_file" ->
                         IF pn.arg.tag # "String"
                         THEN Loaded("Err", "as_string", registry)
                         ELSE LET f == load_templates_from_file(registry,
                                           pn.arg.str, bracketed)
                              IN  IF f.kind # "Ok" THEN f
                                  ELSE load_entries(f.templates, items, i + 1,
                                                    bracketed)
                    [] OTHER -> Loaded("Err", "UnrecognizedPropTransform", registry)

\* (an error gives back the registry as it was before the call)
load_templates_atomic(registry, node, bracketed) ==
    IF node.tag # "Array" THEN Loaded("Err", "as_array", registry)
    ELSE LET r == load_entries(registry, node.items, 1, bracketed)
         IN  IF r.kind = "Err" THEN Loaded("Err", r.msg, registry) ELSE r

load_templates(registry, node, bracketed) ==
    IF node.tag # "Array" THEN Loaded("Err", "as_array", registry)
    ELSE load_entries(registry, node.items, 1, bracketed)

(***************************************************************************)
(* The directives the model loads.                                         *)
(***************************************************************************)
Texts ==
    {"<Rock x='5'/>", "<Rock x='7'><Candle/></Rock>",
     "<Granit inherits='Rock' y='a'/>"}

Paths == DOMAIN FileSystem \cup {"none.xml"}

Entries ==
    {Transform("template", Str(t)) : t \in Texts}
    \cup {Transform("templates_from_file", Str(p)) : p \in Paths}
    \cup {Transform("template", Integer(5)), Transform("include", Str("a.xml")),
          Integer(5)}

Directives ==
    {Array(items) : items \in UNION {[1..n -> Entries] : n \in 0..MaxEntries}}
    \cup {Str("a.xml")}

(***************************************************************************)
(* The templates the parser calls of a load return, in order (a ghost of   *)
(* the load, kept beside the registry).                                    *)
(***************************************************************************)
RECURSIVE FileReturns(_, _)
FileReturns(stream, pos) ==
    IF pos > Len(stream) THEN <<>>
    ELSE LET r == from_event_reader(stream, pos)
         IN  CASE r.kind = "Panic" -> <<>>
               [] r.kind = "Ok" -> <<r.template[1]>> \o FileReturns(stream, r.at)
               [] OTHER -> FileReturns(stream, r.at)

EntryReturns(pn, bracketed) ==
    IF pn.tag # "Transform" \/ pn.arg.tag # "String" THEN <<>>
    ELSE CASE pn.name = "template" ->
                LET r == from_string(pn.arg.str, bracketed)
                IN  IF r.kind = "Ok" THEN <<r.template[1]>> ELSE <<>>
           [] pn.name = "templates_from_file" ->
                IF pn.arg.str \in DOMAIN FileSystem
                THEN FileReturns(EventReader(FileSystem[pn.arg.str], bracketed), 2)
                ELSE <<>>
           [] OTHER -> <<>>

\* An entry after which load_templates goes on to the next one.
EntryPasses(pn, bracketed) ==
    /\ pn.tag = "Transform"
    /\ pn.arg.tag = "String"
    /\ \/ pn.name = "template" /\ from_string(pn.arg.str, bracketed).kind = "Ok"
       \/ /\ pn.name = "templates_from_file"
          /\ load_templates_from_file(<<>>, pn.arg.str, bracketed).kind = "Ok"

RECURSIVE Returns(_, _, _)
Returns(items, i, bracketed) ==
    IF i > Len(items) THEN <<>>
    ELSE EntryReturns(items[i], bracketed)
            \o (IF EntryPasses(items[i], bracketed)
                THEN Returns(items, i + 1, bracketed) ELSE <<>>)

LoadInit ==
    /\ parser = "lib"
    /\ events = <<>>
    /\ template_stack = <<>>
    /\ result = Running
    /\ revision = "lib"
    /\ templates = <<>>
    /\ system = <<>>
    /\ call = NoCall
    /\ status = "ready"
    /\ doc_events \in BOOLEAN
    /\ load = NoLoad
    /\ load_result = "idle"
    /\ file = NoFile

\* self.load_templates(&templates)
LoadTemplates ==
    /\ load_result # "Panic"
    /\ load.calls < MaxLoads
    /\ \E node \in Directives :
          LET r == load_templates(templates, node, doc_events)
          IN  /\ templates' = r.templates
              /\ load_result' = r.kind
              /\ load' = [node |-> node, before |-> templates,
                          loaded |-> IF node.tag = "Array"
                                     THEN Returns(node.items, 1, doc_events)
                                     ELSE <<>>,
                          msg |-> r.msg,
                          calls |-> load.calls + 1]
    /\ UNCHANGED <<parseVars, revision, system, call, status, doc_events, file>>

LoadNext == LoadTemplates

SpecLoad == LoadInit /\ [][LoadNext]_vars

(***************************************************************************)
(* What the registry is expected to hold after a load.                     *)
(***************************************************************************)
LastWins(registry, loaded) ==
    [k \in DOMAIN registry \cup {loaded[i].type_name : i \in DOMAIN loaded} |->
        LET at == {i \in DOMAIN loaded : loaded[i].type_name = k}
        IN  IF at = {} THEN registry[k]
            ELSE loaded[CHOOSE i \in at : \A j \in at : j <= i]]

\* The last call loaded one file and nothing else.
OneFile(path) == load.node = Array(<<Transform("templates_from_file", Str(path))>>)

\* C9 as stated: loading a file that is one wrapper element around sibling
\* elements inserts every immediate child of the wrapper under its own
\* type name, as one template each, and never the wrapper.
C9_WrapperSkipped ==
    \A path \in DOMAIN FileSystem :
        LET stream == EventReader(FileSystem[path], doc_events)
        IN  (load_result # "idle" /\ OneFile(path) /\ WellNested(Elems(stream)))
              => /\ load_result = "Ok"
                 /\ load.loaded = TreeOf(stream).children
                 /\ templates = LastWins(load.before, TreeOf(stream).children)

\* C10: after a load that returned, every name of the registry maps to the
\* last template of that name the load's parser calls returned, and to what
\* it mapped to before if there is none; loading the same name twice is no
\* error.
C10_LastWriteWins ==
    /\ load_result \in {"Ok", "Err"} =>
          templates = LastWins(load.before, load.loaded)
    /\ (/\ load_result # "idle"
        /\ load.node.tag = "Array"
        /\ \A i \in DOMAIN load.node.items :
              EntryPasses(load.node.items[i], doc_events))
          => load_result = "Ok"

C10_Witness ==
    /\ load_result = "Ok"
    /\ Len(load.loaded) = 3
    /\ load.loaded[1].type_name = "Rock"
    /\ load.loaded[2].type_name = "Granit"
    /\ load.loaded[3].type_name = "Rock"
    /\ load.loaded[1] # load.loaded[3]
    /\ templates["Rock"] = load.loaded[3]
    /\ templates["Granit"] = load.loaded[2]

(***************************************************************************)
(* The shape load_templates expects of a directive.                        *)
(***************************************************************************)
WellShaped(pn) ==
    /\ pn.tag = "Transform"
    /\ pn.name \in {"template", "templates_from_file"}
    /\ pn.arg.tag = "String"

\* The error an entry of the wrong shape is answered with.
ShapeError(pn) ==
    IF pn.tag # "Transform" THEN "as_transform"
    ELSE IF pn.name \notin {"template", "templates_from_file"}
         THEN "UnrecognizedPropTransform"
         ELSE "as_string"

IllShaped(items) == {i \in DOMAIN items : ~WellShaped(items[i])}

FirstIllShaped(items) ==
    CHOOSE i \in IllShaped(items) : \A j \in IllShaped(items) : i <= j

\* C11 as stated: a directive that is no array is answered with the
\* translation error of as_array; an array with an entry of the wrong shape
\* is answered with the error of its first such entry (unrecognized
\* directive for a transform of another name, the translation error of
\* as_transform or as_string otherwise); and the call returns success only
\* if every entry is a template or templates_from_file transform of a
\* string.
C11_AsStated ==
    load_result # "idle" =>
        IF load.node.tag # "Array"
        THEN load_result = "Err" /\ load.msg = "as_array"
        ELSE LET items == load.node.items
             IN  /\ IllShaped(items) # {} =>
                       /\ load_result = "Err"
                       /\ load.msg = ShapeError(items[FirstIllShaped(items)])
                 /\ load_result = "Ok" => IllShaped(items) = {}

\* C11, amended: the same, for an array whose entries before the first
\* entry of the wrong shape all load (the inline template parses, the file
\* opens and its parser calls do not panic); an entry that does not load
\* panics before a later entry is looked at.
C11_DirectiveValidation ==
    load_result # "idle" =>
        IF load.node.tag # "Array"
        THEN load_result = "Err" /\ load.msg = "as_array"
        ELSE LET items == load.node.items
             IN  /\ (/\ IllShaped(items) # {}
                     /\ \A j \in 1..(FirstIllShaped(items) - 1) :
                           EntryPasses(items[j], doc_events))
                       => /\ load_result = "Err"
                          /\ load.msg = ShapeError(items[FirstIllShaped(items)])
                 /\ (/\ IllShaped(items) # {}
                     /\ \E j \in 1..(FirstIllShaped(items) - 1) :
                           ~EntryPasses(items[j], doc_events))
                       => load_result = "Panic"
                 /\ load_result = "Ok" => IllShaped(items) = {}

C11_Witness ==
    /\ load_result = "Err"
    /\ load.msg = "UnrecognizedPropTransform"
    /\ Len(load.node.items) = 2
    /\ load.node.items[1] = Transform("templates_from_file", Str("a.xml"))
    /\ load.node.items[2].name = "include"
    /\ templates # load.before

(***************************************************************************)
(* load_templates_from_file, one turn of its loop per step: the file is    *)
(* open, the first event is dropped, then from_event_reader is called on   *)
(* the shared iterator while an event is left. The file's events are any   *)
(* sequence the tokenizer can produce: an Error event ends it.             *)
(***************************************************************************)
FileEvents ==
    { StartElement("Rock", <<Attr("inherits", "Stone"), Attr("x", "5")>>),
      StartElement("Moss", <<Attr("y", "?")>>),
      EndElement("Rock"), OtherEvent, ErrorEvent }

Streams ==
    {s \in UNION {[1..n -> FileEvents] : n \in 0..MaxStream} :
        \A i \in 1..(Len(s) - 1) : s[i].kind # "Error"}

Parse(from, r) ==
    [from |-> from, at |-> r.at, kind |-> r.kind, template |-> r.template]

FileInit ==
    /\ parser = "lib"
    /\ events = <<>>
    /\ template_stack = <<>>
    /\ result = Running
    /\ revision = "lib"
    /\ templates = <<>>
    /\ system = <<>>
    /\ call = NoCall
    /\ status = "ready"
    /\ doc_events = FALSE
    /\ load = NoLoad
    /\ load_result = "idle"
    /\ \E s \in Streams :
          file = [stream |-> s, pos |-> 1, parses |-> <<>>, phase |-> "opened"]

\* events.next(); // skip root
SkipRoot ==
    /\ file.phase = "opened"
    /\ file' = [file EXCEPT !.phase = "looping",
                            !.pos = IF @ <= Len(file.stream) THEN @ + 1 ELSE @]
    /\ UNCHANGED <<parseVars, applyVars, doc_events, load, load_result>>

\* while !events.is_empty() { match Template::from_event_reader(&mut events) .. }
ParseNextTemplate ==
    /\ file.phase = "looping"
    /\ file.pos <= Len(file.stream)
    /\ LET r == from_event_reader(file.stream, file.pos)
       IN  /\ file' = [file EXCEPT !.pos = r.at,
                                   !.parses = Append(@, Parse(file.pos, r)),
                                   !.phase = IF r.kind = "Panic" THEN "panicked"
                                             ELSE @]
           /\ templates' = IF r.kind = "Ok" THEN insert(templates, r.template[1])
                                            ELSE templates
    /\ UNCHANGED <<parseVars, revision, system, call, status, doc_events, load,
                   load_result>>

\* the loop's condition fails: the call returns
FileReturn ==
    /\ file.phase = "looping"
    /\ file.pos > Len(file.stream)
    /\ file' = [file EXCEPT !.phase = "returned"]
    /\ UNCHANGED <<parseVars, applyVars, doc_events, load, load_result>>

FileNext == SkipRoot \/ ParseNextTemplate \/ FileReturn

SpecFile == FileInit /\ [][FileNext]_vars

\* The loop is straight-line code: a step it can take, it takes.
SpecFileLive == SpecFile /\ WF_vars(FileNext)

\* The events from a to b are, leaving other events out, one complete
\* element, and b is the EndElement that closes it.
ClosesTopLevel(stream, a, b) ==
    LET seg == SubSeq(stream, a, b)
        es  == Elems(seg)
    IN  /\ a <= b /\ b <= Len(stream)
        /\ stream[b].kind = "EndElement"
        /\ NoErrorEvent(seg)
        /\ es[1].kind = "StartElement"
        /\ Bal(es, Len(es)) = 0
        /\ \A i \in 1..(Len(es) - 1) : Bal(es, i) > 0

\* C14: a parser call of the file loop that returns a template started at
\* the iterator's position, returns the template of the first complete
\* element from there, and leaves the iterator just after the EndElement
\* that closes that element: the next call starts there.
C14_StreamingPosition ==
    \A i \in 1..Len(file.parses) :
        LET p == file.parses[i]
        IN  /\ p.from = IF i = 1 THEN 2 ELSE file.parses[i - 1].at
            /\ i = Len(file.parses) => file.pos = p.at
            /\ p.kind = "Ok" =>
                  /\ ClosesTopLevel(file.stream, p.from, p.at - 1)
                  /\ p.template = Some(TreeOf(SubSeq(file.stream, p.from, p.at - 1)))

C14_Witness ==
    /\ file.phase = "returned"
    /\ Len(file.parses) = 2
    /\ file.parses[1].kind = "Ok" /\ file.parses[2].kind = "Ok"
    /\ file.parses[1].from = 2 /\ file.parses[1].at = 4
    /\ file.parses[2].from = 4 /\ file.parses[2].at = 6
    /\ file.stream[1].kind = "StartElement"

OkTemplates(parses) ==
    LET ok == SelectSeq(parses, LAMBDA p : p.kind = "Ok")
    IN  [i \in 1..Len(ok) |-> ok[i].template[1]]

FileProgress ==
    /\ \A i \in 1..Len(file.parses) :
          /\ file.parses[i].at > file.parses[i].from
          /\ file.parses[i].at <= Len(file.stream) + 1
          /\ file.parses[i].kind \in {"Ok", "Err", "Panic"}
          /\ (file.parses[i].kind = "Panic") =>
                (i = Len(file.parses) /\ file.phase = "panicked")
    /\ templates = LastWins(<<>>, OkTemplates(file.parses))
    /\ file.phase = "returned" =>
          /\ file.pos = Len(file.stream) + 1
          /\ file.parses # <<>> =>
                file.parses[Len(file.parses)].at = Len(file.stream) + 1

\* C20: the call terminates on every stream: each parser call takes at
\* least one event, whether it returns a template or an error; an error
\* returned does not end the loop; the loop ends when no event is left (or
\* the parser panics), and the registry then holds every template the
\* parser calls returned.
C20_FileLoopTerminates ==
    /\ []FileProgress
    /\ <>(file.phase \in {"returned", "panicked"})

C20_Witness ==
    /\ file.phase = "returned"
    /\ Len(file.parses) = 3
    /\ file.parses[1].kind = "Err"
    /\ file.parses[2].kind = "Ok"
    /\ file.parses[3].kind = "Err"
    /\ DOMAIN templates = {"Rock"}

\* C16: every name of the registry maps to a template of that type name,
\* and every entry is a template a parser call returned as a whole (or was
\* in the registry before the load): a template nested in another is no
\* entry unless it was also returned on its own.
C16_RegistryKeys ==
    \A k \in DOMAIN templates :
        /\ templates[k].type_name = k
        /\ \/ k \in DOMAIN load.before /\ templates[k] = load.before[k]
           \/ \E i \in 1..Len(load.loaded) : templates[k] = load.loaded[i]

C16_Witness ==
    /\ load_result = "Ok"
    /\ DOMAIN templates = {"Rock", "Granit"}
    /\ Len(templates["Rock"].children) = 1
    /\ templates["Rock"].children[1].type_name = "Candle"
    /\ templates["Granit"].inherits = Some("Rock")

\* The templates the parser calls of the first n entries return, in order.
PrefixReturns(items, n, bracketed) ==
    Concat([j \in 1..n |-> EntryReturns(items[j], bracketed)])

\* C19: the entries are processed in order: when the first entry of the
\* wrong shape is reached (every entry before it having loaded), the call
\* returns that entry's error at once; the registry is the registry before
\* the call overridden by what the entries before it inserted, and nothing
\* of a later entry is in it. An error is returned in no other case.
C19_PartialEffect ==
    (load_result # "idle" /\ load.node.tag = "Array") =>
        LET items == load.node.items
            first == FirstIllShaped(items)
        IN  /\ (/\ IllShaped(items) # {}
                /\ \A j \in 1..(first - 1) : EntryPasses(items[j], doc_events))
                  => /\ load_result = "Err"
                     /\ templates = LastWins(load.before,
                                       PrefixReturns(items, first - 1, doc_events))
            /\ load_result = "Err"
                  => /\ IllShaped(items) # {}
                     /\ \A j \in 1..(first - 1) : EntryPasses(items[j], doc_events)
                     /\ load.msg = ShapeError(items[first])

C19_Witness ==
    /\ load_result = "Err"
    /\ load.msg = "as_string"
    /\ load.node.items
          = <<Transform("template", Str("<Rock x='7'><Candle/></Rock>")),
              Transform("template", Integer(5))>>
    /\ DOMAIN templates = {"Rock"}
    /\ load.before = <<>>

(***************************************************************************)
(* The subsystem's callbacks (src/src/lib.rs, impl SubSystem). The         *)
(* document's root carries the directive as its templates property. The    *)
(* order in which the store enumerates its entities is the store's.        *)
(***************************************************************************)
get_property_value(sys, entity_id, k) ==
    IF /\ entity_id \in 1..Len(sys)
       /\ k \in DOMAIN sys[entity_id].properties
       /\ sys[entity_id].properties[k] # None
    THEN [ok |-> TRUE, value |-> sys[entity_id].properties[k][1]]
    ELSE [ok |-> FALSE, value |-> [tag |-> "Nil"]]

\* (the template applied with an empty registry)
on_entity_added_alone(registry, sys, entity_id) ==
    IF entity_id \notin 1..Len(sys) THEN Applied("Panic", sys)
    ELSE IF sys[entity_id].type_name \in DOMAIN registry
         THEN apply("lib", registry[sys[entity_id].type_name], <<>>, sys,
                    entity_id, MaxDepth)
         ELSE Applied("Ok", sys)

on_entity_added(registry, sys, entity_id) ==
    IF entity_id \notin 1..Len(sys) THEN Applied("Panic", sys)
    ELSE IF sys[entity_id].type_name \in DOMAIN registry
         THEN apply("lib", registry[sys[entity_id].type_name], registry, sys,
                    entity_id, MaxDepth)
         ELSE Applied("Ok", sys)

\* for entity in entities { self.on_entity_added(system, &entity); }
RECURSIVE add_entities(_, _, _, _)
add_entities(registry, sys, entities, i) ==
    IF i > Len(entities) THEN Applied("Ok", sys)
    ELSE LET r == on_entity_added(registry, sys, entities[i])
         IN  IF r.kind # "Ok" THEN r
             ELSE add_entities(registry, r.system, entities, i + 1)

\* What the callback leaves: how it ended, the registry, the store, and
\* the result of load_templates it dropped.
DocLoaded(kind, loaded, sys) ==
    [kind |-> kind, templates |-> loaded.templates, system |-> sys, load |-> loaded]

entities_added(loaded, r) == DocLoaded(r.kind, loaded, r.system)

\* let entities = get_entities() ...; for entity in entities { ... }
\* A panic of load_templates ends the callback; an error it returns is
\* dropped and does not stop it.
after_load(loaded, sys, entities) ==
    IF loaded.kind = "Panic" THEN DocLoaded("Panic", loaded, sys)
    ELSE entities_added(loaded, add_entities(loaded.templates, sys, entities, 1))

\* entities is the snapshot get_entities gives.
on_document_loaded(registry, sys, bracketed, entities) ==
    IF ~get_property_value(sys, 1, "templates").ok
    THEN DocLoaded("Panic", Loaded("Panic", "unwrap", registry), sys)
    ELSE after_load(load_templates(registry,
                        get_property_value(sys, 1, "templates").value, bracketed),
                    sys, entities)

\* <Root templates="[...]"><Rock name="tmp"/><Granit name="old" y="7"><Moss/></Granit></Root>
Document(directive) ==
    << [type_name |-> "Root", name |-> None,
        properties |-> [k \in PropKeys \cup {"templates"} |->
                           IF k = "templates" THEN directive ELSE None],
        children |-> <<2, 3>>],
       Entity("Rock", Some("tmp"), NoProperties, <<>>),
       Entity("Granit", Some("old"),
              [NoProperties EXCEPT !["y"] = Some(Integer(7))], <<4>>),
       Entity("Moss", None, NoProperties, <<>>) >>

EntityTypes == {"Rock", "Granit", "Moss"}

Orders(n) == {f \in [1..n -> 1..n] : \A i, j \in 1..n : i # j => f[i] # f[j]}

DocInit ==
    /\ parser = "lib"
    /\ events = <<>>
    /\ template_stack = <<>>
    /\ result = Running
    /\ revision = "lib"
    /\ templates = <<>>
    /\ \E d \in {None} \cup {Some(node) : node \in Directives} :
          system = Document(d)
    /\ call = NoCall
    /\ status = "ready"
    /\ doc_events \in BOOLEAN
    /\ load = NoLoad
    /\ load_result = "idle"
    /\ file = NoFile

\* fn on_document_loaded(&mut self, system: &mut System)
OnDocumentLoaded ==
    /\ status = "ready"
    /\ \E entities \in Orders(Len(system)) :
          \E r \in {on_document_loaded(templates, system, doc_events, entities)},
             node \in {get_property_value(system, 1, "templates").value} :
              /\ templates' = r.templates
              /\ system' = IF r.kind = "Ok" THEN r.system ELSE system
              /\ status' = IF r.kind = "Ok" THEN "loaded" ELSE "aborted"
              /\ load_result' = r.load.kind
              /\ load' = [node |-> node, before |-> templates,
                          loaded |-> IF node.tag = "Array"
                                     THEN Returns(node.items, 1, doc_events)
                                     ELSE <<>>,
                          msg |-> r.load.msg,
                          calls |-> load.calls + 1]
              /\ call' = [NoCall EXCEPT !.before = system]
    /\ UNCHANGED <<parseVars, revision, doc_events, file>>

\* the host appends an entity under the root and calls
\* fn on_entity_added(&mut self, system: &mut System, entity_id: &EntityId)
OnEntityAdded ==
    /\ status = "loaded"
    /\ \E type_name \in EntityTypes :
          LET e == append_entity(system, 1, type_name, None)
              r == on_entity_added(templates, e.system, e.id)
          IN  /\ system' = IF r.kind = "Ok" THEN r.system ELSE e.system
              /\ status' = IF r.kind = "Ok" THEN "added" ELSE "aborted"
              /\ call' = [NoCall EXCEPT !.before = e.system, !.entity = e.id]
    /\ UNCHANGED <<parseVars, revision, templates, loadVars>>

DocNext == OnDocumentLoaded \/ OnEntityAdded

SpecDoc == DocInit /\ [][DocNext]_vars

\* What the callback is expected to leave of entity e, which was there
\* before: what applying its type's template to it alone leaves (the
\* properties, the children it had followed by new ones of the same
\* shape), or the entity as it was when the registry has no such template.
Activated(e) ==
    IF Before[e].type_name \in DOMAIN templates
    THEN LET r   == apply(revision, templates[Before[e].type_name], templates,
                          Before, e, MaxDepth)
             old == Len(Before[e].children)
         IN  /\ r.kind = "Ok"
             /\ system[e].type_name = Before[e].type_name
             /\ system[e].name = Before[e].name
             /\ system[e].properties = r.system[e].properties
             /\ SubSeq(system[e].children, 1, old) = Before[e].children
             /\ Len(system[e].children) = Len(r.system[e].children)
             /\ \A c \in (old + 1)..Len(system[e].children) :
                   /\ system[e].children[c] > Len(Before)
                   /\ system[system[e].children[c]].type_name
                         = r.system[r.system[e].children[c]].type_name
                   /\ Shape(system, system[e].children[c])
                         = Shape(r.system, r.system[e].children[c])
    ELSE system[e] = Before[e]

\* C15: when on_document_loaded returns, the registry is what loading the
\* root's templates directive leaves, and every entity the document had is
\* as applying the registry template of its type name, with that registry,
\* leaves it; an entity of a type the registry does not have is unchanged,
\* after on_document_loaded and after on_entity_added; nothing is created
\* but beneath an entity that has a template.
C15_DocumentLoadActivation ==
    /\ status = "loaded" =>
          /\ load.node = get_property_value(Before, 1, "templates").value
          /\ templates = LastWins(load.before, load.loaded)
          /\ \A e \in 1..Len(Before) : Activated(e)
          /\ \A i \in (Len(Before) + 1)..Len(system) :
                \E e \in 1..Len(Before) :
                    /\ Before[e].type_name \in DOMAIN templates
                    /\ Beneath(system, e, i)
    /\ status = "added" =>
          IF Before[Target].type_name \in DOMAIN templates
          THEN /\ Activated(Target)
               /\ \A e \in 1..Len(Before) : e # Target => system[e] = Before[e]
          ELSE system = Before

C15_Witness ==
    /\ status = "loaded"
    /\ load_result = "Ok"
    /\ DOMAIN templates = {"Rock", "Granit"}
    /\ system[2].properties["x"] = Some(Integer(7))
    /\ system[3].properties["x"] = Some(Integer(7))
    /\ system[3].properties["y"] # Before[3].properties["y"]
    /\ Len(system[3].children) = 2
    /\ system[4] = Before[4]
    /\ Len(system) = 6

====
